---- MODULE Spec2Model ----
(***************************************************************************)
(* Model of src/main.py: the layout generator behind POST /api/generate.   *)
(*                                                                         *)
(* Lengths are exact fixed-point numbers: one metre is U units.  U is      *)
(* chosen so that every product and quotient split_rooms computes on a     *)
(* whole-centimetre footprint is an integer, so the model computes the     *)
(* real-number value of every float expression of the source (IEEE         *)
(* rounding is not modelled).  Text is a sequence of one-character         *)
(* strings.                                                                *)
(***************************************************************************)
EXTENDS Integers, Sequences, FiniteSets, TLC

VARIABLES prompt, width, depth, floors, program, rooms, status, response,
          calls, pc

vars == <<prompt, width, depth, floors, program, rooms, status, response,
          calls, pc>>

-----------------------------------------------------------------------------
(* Fixed-point arithmetic *)

\* units per metre: denominators 20*20 (0.35 * 0.55), 3 (rows), 5 (0.6),
\* and 100 (footprints are given to the centimetre)
U == 20 * 20 * 3 * 5 * 100

Cm(c) == c * (U \div 100)

\* x * num / den, for x a multiple of den
Frac(x, num, den) == (x \div den) * num

Min(a, b) == IF a < b THEN a ELSE b
Max(a, b) == IF a > b THEN a ELSE b

-----------------------------------------------------------------------------
(* split_rooms *)

wall == U \div 10
height == 3 * U

Room(name, x, y, w, d) ==
    [name |-> name, x |-> x, y |-> y, z |-> 0,
     width |-> w, depth |-> d, height |-> height]

front_depth(d, prog) ==
    IF prog.open_plan THEN Frac(d, 9, 20) ELSE Frac(d, 7, 20)

living(w, d, prog) ==
    Room("Living", wall, wall, w - 2 * wall, front_depth(d, prog) - wall * 2)

kitchen(w, d, prog) ==
    IF prog.open_plan
    THEN Room("Kitchen", wall, wall, Frac(w - 3 * wall, 2, 5),
              front_depth(d, prog) - 2 * wall)
    ELSE Room("Kitchen", wall, wall, Frac(w - 3 * wall, 1, 2),
              Frac(front_depth(d, prog), 11, 20) - wall)

dining(w, d, prog) ==
    LET k == kitchen(w, d, prog)
    IN  Room("Dining", wall + k.width + wall, wall,
             w - (k.width + 3 * wall), k.depth)

remaining_depth(d, prog) == d - front_depth(d, prog) - wall

rows_nomax(prog) == prog.bedrooms \div 2

rows(prog) == Max(1, prog.bedrooms \div 2)

cols(prog) == IF prog.bedrooms >= 2 THEN 2 ELSE 1

cell_w(w, prog) == (w - (cols(prog) + 1) * wall) \div cols(prog)

cell_d(d, prog) ==
    IF rows(prog) > 0
    THEN (remaining_depth(d, prog) - (rows(prog) + 1) * wall) \div rows(prog)
    ELSE remaining_depth(d, prog)

\* inner loop `for c in range(cols)`: acc holds the bedrooms placed so far,
\* so placed_beds = Len(acc)
RECURSIVE bed_row(_, _, _, _, _, _, _)
bed_row(c, x0, y0, acc, w, d, prog) ==
    IF c >= cols(prog) \/ Len(acc) >= prog.bedrooms
    THEN acc
    ELSE bed_row(c + 1, x0 + cell_w(w, prog) + wall, y0,
                 Append(acc, Room("Bedroom " \o ToString(Len(acc) + 1),
                                  x0, y0, cell_w(w, prog), cell_d(d, prog))),
                 w, d, prog)

\* outer loop `for r in range(rows)`
RECURSIVE bed_grid(_, _, _, _, _, _)
bed_grid(r, y0, acc, w, d, prog) ==
    IF r >= rows(prog)
    THEN acc
    ELSE bed_grid(r + 1, y0 + cell_d(d, prog) + wall,
                  bed_row(0, wall, y0, acc, w, d, prog), w, d, prog)

bedrooms(w, d, prog) ==
    bed_grid(0, front_depth(d, prog) + wall, <<>>, w, d, prog)

b_w(w, prog) == Min(Frac(U, 22, 10), Frac(cell_w(w, prog), 3, 5))

b_d_nocap(d, prog) == wall + Frac(cell_d(d, prog), 3, 5)

b_d(d, prog) == Min(Frac(U, 24, 10), wall + Frac(cell_d(d, prog), 3, 5))

bathrooms(w, d, prog) ==
    [n \in 1 .. prog.bathrooms |->
        Room("Bath " \o ToString(n),
             w - b_w(w, prog) - wall,
             front_depth(d, prog) + wall + (n - 1) * (b_d(d, prog) + wall),
             b_w(w, prog), b_d(d, prog))]

office(w, d, prog) ==
    LET o_w == Min(3 * U, Frac(w - 3 * wall, 7, 20))
        o_d == Min(3 * U, Frac(front_depth(d, prog) - 3 * wall, 7, 10))
    IN  IF prog.office # 0
        THEN <<Room("Office", w - o_w - wall, wall, o_w, o_d)>>
        ELSE <<>>

split_rooms(w, d, prog) ==
    <<living(w, d, prog), kitchen(w, d, prog), dining(w, d, prog)>>
        \o bedrooms(w, d, prog)
        \o bathrooms(w, d, prog)
        \o office(w, d, prog)

-----------------------------------------------------------------------------
(* parse_program_from_prompt *)

UpperCase == <<"A", "B", "C", "D", "E", "F", "G", "H", "I", "J", "K", "L", "M",
               "N", "O", "P", "Q", "R", "S", "T", "U", "V", "W", "X", "Y", "Z">>
LowerCase == <<"a", "b", "c", "d", "e", "f", "g", "h", "i", "j", "k", "l", "m",
               "n", "o", "p", "q", "r", "s", "t", "u", "v", "w", "x", "y", "z">>

Digits == <<"0", "1", "2", "3", "4", "5", "6", "7", "8", "9">>

\* str.lower(), one character
lower_char(c) ==
    IF \E i \in 1 .. 26 : UpperCase[i] = c
    THEN LowerCase[CHOOSE i \in 1 .. 26 : UpperCase[i] = c]
    ELSE c

\* str.lower()
lower(s) == [i \in 1 .. Len(s) |-> lower_char(s[i])]

\* regex \d
IsDigit(c) == \E i \in 1 .. 10 : Digits[i] = c

digit_value(c) == (CHOOSE i \in 1 .. 10 : Digits[i] = c) - 1

\* regex \s
IsSpace(c) == c \in {" ", "\t", "\n", "\r"}

\* the literal k occurs in text at position i
literal_at(text, i, k) ==
    /\ i + Len(k) - 1 <= Len(text)
    /\ \A j \in 1 .. Len(k) : text[i + j - 1] = k[j]

\* `k in text`
contains(text, k) == \E i \in 1 .. Len(text) + 1 : literal_at(text, i, k)

\* first position at or after i that is not a digit (greedy \d*)
RECURSIVE digits_end(_, _)
digits_end(text, i) ==
    IF i <= Len(text) /\ IsDigit(text[i]) THEN digits_end(text, i + 1) ELSE i

\* first position at or after i that is not whitespace (greedy \s*)
RECURSIVE space_end(_, _)
space_end(text, i) ==
    IF i <= Len(text) /\ IsSpace(text[i]) THEN space_end(text, i + 1) ELSE i

\* int() of the digits text[i .. j-1]
RECURSIVE int(_, _, _)
int(text, i, j) ==
    IF j <= i THEN 0 ELSE 10 * int(text, i, j - 1) + digit_value(text[j - 1])

\* (\d+)\s*keyword matches with the match starting at position i.  The
\* keywords start with a letter, so the greedy runs are the only way to match.
match_at(text, i, keyword) ==
    /\ digits_end(text, i) > i
    /\ literal_at(text, space_end(text, digits_end(text, i)), keyword)

find_num_nokeyword(text, keyword, default) ==
    LET starts == {i \in 1 .. Len(text) : digits_end(text, i) > i}
    IN  IF starts = {}
        THEN default
        ELSE LET i == CHOOSE s \in starts : \A t \in starts : s <= t
             IN  int(text, i, digits_end(text, i))

\* re.search: the leftmost match; int(m.group(1)) if there is one
find_num(text, keyword, default) ==
    LET starts == {i \in 1 .. Len(text) : match_at(text, i, keyword)}
    IN  IF starts = {}
        THEN default
        ELSE LET i == CHOOSE s \in starts : \A t \in starts : s <= t
             IN  int(text, i, digits_end(text, i))

kw_bed == <<"b", "e", "d">>
kw_bath == <<"b", "a", "t", "h">>

kw_office == {<<"o", "f", "f", "i", "c", "e">>,
              <<"s", "t", "u", "d", "y">>,
              <<"w", "o", "r", "k", "s", "p", "a", "c", "e">>}

kw_open_plan == {<<"o", "p", "e", "n", " ", "p", "l", "a", "n">>,
                 <<"o", "p", "e", "n", "-", "p", "l", "a", "n">>,
                 <<"o", "p", "e", "n", " ", "c", "o", "n", "c", "e", "p", "t">>,
                 <<"o", "p", "e", "n", " ", "l", "a", "y", "o", "u", "t">>}

kw_modern == {<<"m", "o", "d", "e", "r", "n">>,
              <<"c", "o", "n", "t", "e", "m", "p", "o", "r", "a", "r", "y">>,
              <<"m", "i", "n", "i", "m", "a", "l">>}

kw_traditional == {<<"t", "r", "a", "d", "i", "t", "i", "o", "n", "a", "l">>,
                   <<"c", "l", "a", "s", "s", "i", "c">>}

DefaultBedrooms == 3
DefaultBathrooms == 2
MaxBedrooms == 6
MaxBathrooms == 4

clamp_nofloor(lo, hi, n) == Min(hi, n)

\* max(lo, min(hi, n))
clamp(lo, hi, n) == Max(lo, Min(hi, n))

parse_program_from_prompt(p) ==
    LET text == lower(p)
    IN  [bedrooms |-> clamp(1, MaxBedrooms, find_num(text, kw_bed, DefaultBedrooms)),
         bathrooms |-> clamp(1, MaxBathrooms, find_num(text, kw_bath, DefaultBathrooms)),
         office |-> IF \E k \in kw_office : contains(text, k) THEN 1 ELSE 0,
         open_plan |-> \E k \in kw_open_plan : contains(text, k),
         style |-> IF \E k \in kw_modern : contains(text, k)
                   THEN "modern"
                   ELSE IF \E k \in kw_traditional : contains(text, k)
                        THEN "traditional"
                        ELSE "neutral"]

-----------------------------------------------------------------------------
(* POST /api/generate *)

\* PromptRequest: width and depth gt=4, lt=200; floors ge=1, le=3
PromptRequest_valid_ge(w, d, f) ==
    /\ w >= 4 * U /\ w < 200 * U
    /\ d >= 4 * U /\ d < 200 * U
    /\ f >= 1 /\ f <= 3

PromptRequest_valid(w, d, f) ==
    /\ w > 4 * U /\ w < 200 * U
    /\ d > 4 * U /\ d < 200 * U
    /\ f >= 1 /\ f <= 3

note == "Procedurally generated layout (conceptual). Units in meters."

generate_layout_floors(p, w, d, f) ==
    LET prog == parse_program_from_prompt(p)
    IN  [footprint |-> [width |-> w, depth |-> d, height |-> f * 3 * U],
         rooms |-> split_rooms(w, d, prog),
         meta |-> [program |-> prog, note |-> note]]

\* the handler's body; f (req.floors) is not read
generate_layout(p, w, d, f) ==
    LET prog == parse_program_from_prompt(p)
    IN  [footprint |-> [width |-> w, depth |-> d, height |-> 3 * U],
         rooms |-> split_rooms(w, d, prog),
         meta |-> [program |-> prog, note |-> note]]

-----------------------------------------------------------------------------
(* Inputs *)

MaxFrags == 3
MaxDimStep == 4

\* pieces the bodies of the parser's prompts are concatenated from
Frags == {<<"0">>,
          <<"2">>,
          <<"1", "5">>,
          <<" ">>,
          <<"x">>,
          <<"b", "e", "d">>,
          <<"b", "a", "t", "h">>}

\* endings of the parser's prompts: nothing, each keyword, capitals
Tails == {<<>>,
          <<"o", "f", "f", "i", "c", "e">>,
          <<"s", "t", "u", "d", "y">>,
          <<"w", "o", "r", "k", "s", "p", "a", "c", "e">>,
          <<"o", "p", "e", "n", " ", "p", "l", "a", "n">>,
          <<"o", "p", "e", "n", "-", "p", "l", "a", "n">>,
          <<"o", "p", "e", "n", " ", "c", "o", "n", "c", "e", "p", "t">>,
          <<"o", "p", "e", "n", " ", "l", "a", "y", "o", "u", "t">>,
          <<"m", "o", "d", "e", "r", "n">>,
          <<"c", "o", "n", "t", "e", "m", "p", "o", "r", "a", "r", "y">>,
          <<"m", "i", "n", "i", "m", "a", "l">>,
          <<"t", "r", "a", "d", "i", "t", "i", "o", "n", "a", "l">>,
          <<"c", "l", "a", "s", "s", "i", "c">>,
          <<"B", "e", "d">>,
          <<"M", "o", "d", "e", "r", "n">>}

RECURSIVE Bodies(_)
Bodies(n) ==
    IF n = 0
    THEN {<<>>}
    ELSE LET B == Bodies(n - 1) IN B \cup {b \o f : b \in B, f \in Frags}

\* at most n pieces, then an ending
Prompts(n) == {b \o t : b \in Bodies(n), t \in Tails}

\* validated footprint sides, in centimetres: the ends of the range, the
\* documented examples, and a grid
ValidDims ==
    {Cm(c) : c \in {401, 1200, 1000, 1400, 19999}
                   \cup {500 * k : k \in 1 .. MaxDimStep}}

Styles == {"modern", "traditional", "neutral"}

Programs ==
    [bedrooms : 1 .. MaxBedrooms, bathrooms : 1 .. MaxBathrooms,
     office : {0, 1}, open_plan : BOOLEAN, style : Styles]

\* requests sent to the server: sides on and around the ends of the range
RequestDims == {Cm(c) : c \in {400, 401, 1200, 20000}}
RequestFloors == 0 .. 4
RequestPrompts == {<<>>,
                   <<"2", " ", "b", "e", "d", " ", "1", " ", "b", "a", "t", "h", " ", "o", "p", "e", "n", "-", "p", "l", "a", "n", " ", "o", "f", "f", "i", "c", "e">>,
                   <<"M", "o", "d", "e", "r", "n", " ", "5", " ", "B", "E", "D", " ", "4", " ", "b", "a", "t", "h">>,
                   <<"3", "b", "e", "d", " ", "c", "l", "a", "s", "s", "i", "c">>}

-----------------------------------------------------------------------------
(* The server: each request is handled in one step *)

Init ==
    /\ prompt = <<>>
    /\ width = 0
    /\ depth = 0
    /\ floors = 0
    /\ program = <<>>
    /\ rooms = <<>>
    /\ status = 0
    /\ response = <<>>
    /\ calls = {}
    /\ pc = "idle"

\* a request the boundary rejects: the handler does not run
Rejected(p, w, d, f) ==
    /\ ~PromptRequest_valid(w, d, f)
    /\ prompt' = p /\ width' = w /\ depth' = d /\ floors' = f
    /\ program' = <<>>
    /\ rooms' = <<>>
    /\ calls' = {}
    /\ status' = 422
    /\ response' = <<>>
    /\ pc' = "responded"

\* a validated request: generate_layout runs
Generated(p, w, d, f) ==
    /\ PromptRequest_valid(w, d, f)
    /\ prompt' = p /\ width' = w /\ depth' = d /\ floors' = f
    /\ response' = <<generate_layout(p, w, d, f)>>
    /\ program' = <<response'[1].meta.program>>
    /\ rooms' = response'[1].rooms
    /\ calls' = {"parse_program_from_prompt", "split_rooms"}
    /\ status' = 200
    /\ pc' = "responded"

post_api_generate ==
    \E p \in RequestPrompts, w \in RequestDims, d \in RequestDims,
       f \in RequestFloors :
        Rejected(p, w, d, f) \/ Generated(p, w, d, f)

Next == post_api_generate

Spec == Init /\ [][Next]_vars

-----------------------------------------------------------------------------
(* split_rooms on every validated footprint and every valid program *)

InitSplit ==
    /\ prompt = <<>>
    /\ width \in ValidDims
    /\ depth \in ValidDims
    /\ floors = 1
    /\ program \in {<<prog>> : prog \in Programs}
    /\ rooms = <<>>
    /\ status = 0
    /\ response = <<>>
    /\ calls = {}
    /\ pc = "start"

SplitRooms ==
    /\ pc = "start"
    /\ rooms' = split_rooms(width, depth, program[1])
    /\ calls' = {"split_rooms"}
    /\ pc' = "done"
    /\ UNCHANGED <<prompt, width, depth, floors, program, status, response>>

NextSplit == SplitRooms

SpecSplit == InitSplit /\ [][NextSplit]_vars

-----------------------------------------------------------------------------
(* parse_program_from_prompt on every prompt of at most MaxFrags pieces *)

InitParse ==
    /\ prompt \in Prompts(MaxFrags)
    /\ width = 0
    /\ depth = 0
    /\ floors = 1
    /\ program = <<>>
    /\ rooms = <<>>
    /\ status = 0
    /\ response = <<>>
    /\ calls = {}
    /\ pc = "start"

ParseProgram ==
    /\ pc = "start"
    /\ program' = <<parse_program_from_prompt(prompt)>>
    /\ calls' = {"parse_program_from_prompt"}
    /\ pc' = "done"
    /\ UNCHANGED <<prompt, width, depth, floors, rooms, status, response>>

NextParse == ParseProgram

SpecParse == InitParse /\ [][NextParse]_vars

-----------------------------------------------------------------------------
(* Properties *)

\* the rectangles [x, x+width) x [y, y+depth) of a and b intersect
Overlap(a, b) ==
    /\ a.x < b.x + b.width /\ b.x < a.x + a.width
    /\ a.y < b.y + b.depth /\ b.y < a.y + a.depth

\* room r lies inside the footprint w x d
Inside(r, w, d) ==
    /\ r.x >= 0 /\ r.y >= 0
    /\ r.x + r.width <= w /\ r.y + r.depth <= d

OfficeCount(prog) == IF prog.office # 0 THEN 1 ELSE 0

ExpectedNames(prog) ==
    <<"Living", "Kitchen", "Dining">>
        \o [i \in 1 .. prog.bedrooms |-> "Bedroom " \o ToString(i)]
        \o [i \in 1 .. prog.bathrooms |-> "Bath " \o ToString(i)]
        \o (IF prog.office # 0 THEN <<"Office">> ELSE <<>>)

\* C1: no two distinct rooms returned by split_rooms overlap in the (x,y)
\* plane, for every validated footprint and every valid program.
C1_NoOverlap ==
    pc = "done" =>
        \A i, j \in 1 .. Len(rooms) : i < j => ~Overlap(rooms[i], rooms[j])

\* C2: split_rooms returns 3 + bedrooms + bathrooms + (1 if office) rooms.
C2_RoomCount ==
    pc = "done" =>
        Len(rooms) = 3 + program[1].bedrooms + program[1].bathrooms
                       + OfficeCount(program[1])

\* C3: the names returned by split_rooms are, in order, Living, Kitchen,
\* Dining, Bedroom 1..N, Bath 1..M and then Office iff the office flag is set.
C3_NameOrder ==
    pc = "done" =>
        [i \in 1 .. Len(rooms) |-> rooms[i].name] = ExpectedNames(program[1])

C5_TypicalInside ==
    (/\ pc = "done"
     /\ width = Cm(1200) /\ depth = Cm(1000)
     /\ program[1].bedrooms = 3 /\ program[1].bathrooms = 2
     /\ ~program[1].open_plan)
        => \A i \in 1 .. Len(rooms) : Inside(rooms[i], 12 * U, 10 * U)

C5_Witness ==
    /\ pc = "done"
    /\ width = Cm(1200) /\ depth = Cm(1000)
    /\ program[1].bedrooms = 3 /\ program[1].bathrooms = 2
    /\ ~program[1].open_plan
    /\ Len(rooms) >= 7
    /\ rooms[Len(rooms)].y + rooms[Len(rooms)].depth > 5 * U

\* the request's numbers are inside the declared ranges
InRanges ==
    /\ Cm(400) < width /\ width < Cm(20000)
    /\ Cm(400) < depth /\ depth < Cm(20000)
    /\ floors \in 1 .. 3

HasCount(text, keyword) ==
    \E j \in 2 .. Len(text) + 1 :
        /\ IsDigit(text[j - 1])
        /\ \E k \in j .. Len(text) + 1 :
              /\ \A n \in j .. k - 1 : IsSpace(text[n])
              /\ literal_at(text, k, keyword)

\* the prompt, case ignored, has no bedroom or bathroom count and no office,
\* open-plan or style keyword
NoCue(p) ==
    /\ ~HasCount(lower(p), kw_bed)
    /\ ~HasCount(lower(p), kw_bath)
    /\ \A k \in kw_office \cup kw_open_plan \cup kw_modern \cup kw_traditional :
          ~contains(lower(p), k)

Defaults ==
    [bedrooms |-> 3, bathrooms |-> 2, office |-> 0, open_plan |-> FALSE,
     style |-> "neutral"]

\* C7: for the empty prompt and for every prompt without a bedroom or
\* bathroom count and without an office, open-plan or style keyword,
\* parse_program_from_prompt returns the defaults (3 bedrooms, 2 bathrooms,
\* no office, not open plan, neutral).
C7_Defaults ==
    (pc = "done" /\ NoCue(prompt)) => program[1] = Defaults

\* a prompt with a number and the word "bed", but not the one after the other
C7_Witness ==
    /\ pc = "done"
    /\ NoCue(prompt)
    /\ contains(lower(prompt), kw_bed)
    /\ \E i \in 1 .. Len(prompt) : IsDigit(prompt[i])
    /\ program[1] = Defaults

\* C8: two valid requests that agree on prompt, width and depth get the same
\* response whatever their floors, and every room has z = 0.
C8_FloorsInert ==
    [][(status' = 200 =>
           \A i \in 1 .. Len(response'[1].rooms) :
               response'[1].rooms[i].z = 0)
       /\ ((/\ status = 200 /\ status' = 200
            /\ prompt' = prompt /\ width' = width /\ depth' = depth)
               => response' = response)]_vars

C8_Witness ==
    /\ status = 200
    /\ floors = 3
    /\ Len(response[1].rooms) > 0

\* C9: every room returned by split_rooms lies inside the footprint, for
\* every validated footprint and every valid program.
C9_AllInside ==
    pc = "done" => \A i \in 1 .. Len(rooms) : Inside(rooms[i], width, depth)

\* C10: every room returned by split_rooms has strictly positive width and
\* depth, and the row and column divisors of the bedroom grid are not zero,
\* for every validated footprint and every valid program.
C10_PositiveRooms ==
    pc = "done" =>
        /\ \A i \in 1 .. Len(rooms) : rooms[i].width > 0 /\ rooms[i].depth > 0
        /\ rows(program[1]) # 0
        /\ cols(program[1]) # 0

\* the smallest validated footprint with the largest program
C10_Witness ==
    /\ pc = "done"
    /\ width = Cm(401) /\ depth = Cm(401)
    /\ program[1].bedrooms = 6 /\ program[1].bathrooms = 4
    /\ program[1].office = 1
    /\ Len(rooms) > 3
    /\ \A i \in 1 .. Len(rooms) : rooms[i].width > 0 /\ rooms[i].depth > 0

\* every quotient split_rooms computes on the footprint at hand is exact
ExactArithmetic ==
    pc = "done" =>
        LET prog == program[1]
            fd == front_depth(depth, prog)
        IN  /\ depth % 20 = 0
            /\ fd % 20 = 0
            /\ (width - 3 * wall) % 20 = 0
            /\ (width - (cols(prog) + 1) * wall) % cols(prog) = 0
            /\ (remaining_depth(depth, prog) - (rows(prog) + 1) * wall)
                   % rows(prog) = 0
            /\ cell_w(width, prog) % 5 = 0
            /\ cell_d(depth, prog) % 5 = 0
            /\ (fd - 3 * wall) % 10 = 0

====
